---- MODULE Spec2Model ----
(***************************************************************************)
(* Journey tracking of transit-nova-alert: the useJourneyManager hook      *)
(* (journey state, proximity alerts, pause/resume/stop/emergency stop),    *)
(* the foreground GeolocationManager it owns, the persistent store, and    *)
(* the BackgroundLocationService.                                          *)
(*                                                                         *)
(* React state is committed atomically per handler: a handler or effect    *)
(* reads the state of the latest render and its setState calls are applied *)
(* in order.  A continuation after an `await` keeps the closure captured   *)
(* when the handler was called and is a separate action.                   *)
(*                                                                         *)
(* Angles are integers in units of 1e-5 degree; all sample points lie on   *)
(* the equator, where the haversine formula reduces to R * |dLng|.         *)
(***************************************************************************)
EXTENDS Integers, Sequences, FiniteSets, TLC

\* ------------------------------------------------------------------ bounds
MaxAlerts == 2
MaxJourneys == 1
MaxHistory == 1
MaxTimers == 1
MaxCallbacks == 2
MaxInFlight == 1
MaxEmergency == 1
MaxRestarts == 2
MaxWatches == 2
MaxEtaMinutes == 150
MaxStoredJourneys == 102
MaxDestinationCalls == 53
MaxSearches == 3
MaxDistanceSteps == 30
MaxSuccessiveJourneys == 2
MaxCheckTimers == 2
MaxAlarmStarts == 3
MaxClock == 3000
MaxReused == 1

\* --------------------------------------------------------- program constants
ArrivalThreshold == 50
ApproachingThreshold == 1000
FinalThreshold == 200
HistoryCap == 100
DestinationCap == 50
MinRequestInterval == 1000
maxAlarms == 6
EarthRadius == 6371000
SignificantDelta == 10
\* metres per degree of longitude on the equator: R * PI / 180
MetersPerDegree == ((EarthRadius \div 1000) * 314159) \div 18000

\* null, for a Journey and for a Location
NoJourney == [id |-> 0, status |-> "none", alerts |-> <<>>]
NoLocation == [none |-> TRUE]
NoHandle == 0
NoError == "null"
PermissionRequired == "Location permission is required for journey tracking"
PositionError == "GeolocationPositionError"

AlertTypes == {"first_warning", "approaching", "final_warning", "arrived", "emergency"}
TrackingModes == {"minimal", "active", "precision"}

\* the destination of every journey, and the positions the platform reports:
\* 5000 m, 900 m, 150 m and 40 m east of it
DestinationLocation == [lat |-> 0, lng |-> 0]
DestinationId == 1
SampleLngs == {4497, 810, 135, 36}
SamplePoints == {[lat |-> 0, lng |-> k] : k \in SampleLngs}
\* what a fallback poll may report: the sample points, and points 0.00004
\* and 0.0001 degrees east of the one at 40 m
PollPoints == SamplePoints \cup {[lat |-> 0, lng |-> 40], [lat |-> 0, lng |-> 46]}
\* the transport mode every journey is started with
SampleTransportMode == "train"
\* the positions at 5000 m, 900 m, 150 m and 40 m, in this order
TestSequence == <<4497, 810, 135, 36>>
TestPoint(i) == [lat |-> 0, lng |-> TestSequence[i]]

Abs(x) == IF x < 0 THEN -x ELSE x
Min(a, b) == IF a < b THEN a ELSE b

\* Math.cos of a latitude, in hundredths: the series 1 - x^2/2 + x^4/24 -
\* x^6/720 at the whole degrees of the latitude, x in thousandths of a radian
Cos(lat) ==
    LET x  == ((Abs(lat) \div 100000) * 17453) \div 1000
        x2 == (x * x) \div 1000
        x4 == (x2 * x2) \div 1000
        x6 == (x4 * x2) \div 1000
    IN  (1000 - x2 \div 2 + x4 \div 24 - x6 \div 720 + 5) \div 10

\* Math.sqrt, rounded down, by Newton's iteration
RECURSIVE SqrtFrom(_, _)
SqrtFrom(n, x) ==
    LET y == (x + n \div x) \div 2
    IN  IF y >= x THEN x ELSE SqrtFrom(n, y)
Sqrt(n) == IF n = 0 THEN 0 ELSE SqrtFrom(n, n)

\* calculateDistance with the cosine of the first latitude taken twice
calculateDistanceFirstLatitude(point1, point2) ==
    LET deltaLat == point2.lat - point1.lat
        deltaLng == point2.lng - point1.lng
        a == deltaLat * deltaLat
               + (((Cos(point1.lat) * Cos(point1.lat)) \div 100) * (deltaLng * deltaLng)) \div 100
    IN  (Sqrt(a) * MetersPerDegree) \div 100000

\* calculateDistance, in whole metres, for points less than 0.05 degrees
\* apart, where sin x and atan x are x to the precision kept: a is the
\* haversine term in squared units of 0.00001 degrees, R * c is its root
\* times the metres per degree
calculateDistance(point1, point2) ==
    LET deltaLat == point2.lat - point1.lat
        deltaLng == point2.lng - point1.lng
        a == deltaLat * deltaLat
               + (((Cos(point1.lat) * Cos(point2.lat)) \div 100) * (deltaLng * deltaLng)) \div 100
    IN  (Sqrt(a) * MetersPerDegree) \div 100000

\* estimated times, in milliseconds: every whole minute up to MaxEtaMinutes
\* and four milliseconds past it (multiples of 4, so that ETA / 4 is exact)
SampleEtas == {m * 60000 + d : m \in 0..MaxEtaMinutes, d \in {0, 4}}
NoSelection == [eta |-> -1, mode |-> "none", interval |-> 0]
NoEstimate == [distance |-> -1, transportMode |-> "none", ms |-> -1]
NoMeasure == [point1 |-> NoLocation, point2 |-> NoLocation, forward |-> -1, backward |-> -1]
\* field initialiser of the NotificationManager (longAlarmInterval = null),
\* no timer pending, no cycle played; timers holds each pending
\* setTimeout(playAlarmCycle) with the alarmCount of its closure, cycles counts
\* the cycles since the last playLongWarningAlarm(), stopped tells that
\* stopLongAlarm() was the last call made
NewAlarm == [longAlarmInterval |-> NoHandle, timers |-> {}, nextTimer |-> 1,
             cycles |-> 0, starts |-> 0, stopped |-> FALSE, playedAfterStop |-> FALSE]
\* field initialisers of NominatimService; the clock starts when a first
\* request would not have to wait
NewNominatimService ==
    [now |-> MinRequestInterval, lastRequestTime |-> 0, cache |-> {},
     sleeping |-> <<>>, fetching |-> <<>>, issued |-> <<>>, searches |-> 0]

VARIABLES
    currentJourney,     \* useState<Journey | null>
    currentLocation,    \* useState<Location | null>
    isTracking,         \* useState(false)
    alertedDistances,   \* useState<Set<AlertType>>
    effectPending,      \* a dependency of the tracking effect changed since it last ran
    pendingDispatch,    \* alert types whose checkAndSendAlert is suspended at an await
    pendingEmergency,   \* journeys captured by emergencyStop calls suspended at their await
    clearTimers,        \* ids of the journeys whose clear timer (setTimeout) is pending
    nextId,             \* source of fresh journey ids (Date.now())
    savedJourney,       \* localStorage CURRENT_JOURNEY
    journeyHistory,     \* localStorage JOURNEY_HISTORY
    gm,                 \* the GeolocationManager instance and the platform handles it registered
    scriptPos,          \* number of samples of TestSequence delivered so far
    bg,                 \* the BackgroundLocationService instance and its platform watches
    selection,          \* the last ETA given to the tracking-mode selection and what it chose
    error,              \* useState<string | null>
    notificationPermission, \* NotificationManager.permission
    destinations,       \* localStorage DESTINATIONS: entries of id and lastUsed
    nominatim,          \* the NominatimService instance, its sleeping and issued requests, the clock
    estimate,           \* the last distance and mode given to estimateArrivalTime and its result
    measured,           \* the last two points given to calculateDistance and its results both ways
    alarm               \* the long alarm of the NotificationManager and the timers it has set

vars == <<currentJourney, currentLocation, isTracking, alertedDistances, effectPending,
          pendingDispatch, pendingEmergency, clearTimers, nextId,
          savedJourney, journeyHistory, gm, scriptPos, bg, selection, error,
                   notificationPermission, destinations, nominatim, estimate, measured, alarm>>

hookVars == <<currentJourney, currentLocation, isTracking, alertedDistances, effectPending,
              pendingDispatch, pendingEmergency, clearTimers, nextId,
              savedJourney, journeyHistory, gm, scriptPos, selection, error,
                   notificationPermission, destinations, nominatim, estimate, measured, alarm>>

\* ------------------------------------------------------- GeolocationManager
\* field initialisers of the class
NewGeolocationManager ==
    [watchId |-> NoHandle, trackingInterval |-> NoHandle, trackingMode |-> "minimal",
     lastPosition |-> NoLocation, isBackgroundMode |-> FALSE,
     callbacks |-> 0, errorCallbacks |-> 0,
     watches |-> {}, intervals |-> {}, pollsInFlight |-> 0,
     enabling |-> 0, disabling |-> 0]

\* the handle the platform returns for a new watch or timer
FreshHandle(used) ==
    CHOOSE h \in 1..(Cardinality(used) + 1) : h \notin used /\ \A k \in 1..(h - 1) : k \in used

stopTrackingNoInterval(g) ==
    [g EXCEPT !.watches = IF g.watchId # NoHandle THEN @ \ {g.watchId} ELSE @,
              !.watchId = NoHandle]

stopTracking(g) ==
    LET g1 == IF g.watchId # NoHandle
              THEN [g EXCEPT !.watches = @ \ {g.watchId}, !.watchId = NoHandle]
              ELSE g
    IN  IF g1.trackingInterval # NoHandle
        THEN [g1 EXCEPT !.intervals = @ \ {g1.trackingInterval}, !.trackingInterval = NoHandle]
        ELSE g1

startTrackingInterval(g) ==
    LET h == FreshHandle(g.intervals)
    IN  [g EXCEPT !.trackingInterval = h, !.intervals = @ \cup {h}]

\* navigator.geolocation.watchPosition: the platform issues an id that no
\* registered watch has and that differs from the ids in `cleared`, the
\* watches cleared earlier in the same call (ids are never issued twice)
watchPosition(g, cleared) ==
    LET h == FreshHandle(g.watches \cup cleared)
    IN  [g EXCEPT !.watchId = h, !.watches = @ \cup {h}]

\* startTracking without the stopTracking() of a watch that is still set
startTrackingKeepingWatch(g, cleared) ==
    IF g.isBackgroundMode THEN g
    ELSE LET g2 == watchPosition(g, cleared \cup g.watches)
         IN  IF g2.trackingMode \in {"active", "precision"}
             THEN startTrackingInterval(g2)
             ELSE g2

\* startTracking, called after the watches in `cleared` were cleared
startTrackingAfter(g, cleared) ==
    IF g.isBackgroundMode THEN g
    ELSE LET g1 == IF g.watchId # NoHandle THEN stopTracking(g) ELSE g
             g2 == watchPosition(g1, cleared \cup g.watches)
         IN  IF g2.trackingMode \in {"active", "precision"}
             THEN startTrackingInterval(g2)
             ELSE g2

startTracking(g) == startTrackingAfter(g, {})

\* the condition under which setTrackingMode stops and restarts the sampler
Reconfigures(g) == g.watchId # NoHandle /\ ~g.isBackgroundMode

setTrackingMode(g, mode) ==
    LET g1 == [g EXCEPT !.trackingMode = mode]
    IN  IF Reconfigures(g1)
        THEN startTrackingAfter(stopTracking(g1), g1.watches)
        ELSE g1

onPositionUpdate(g) == [g EXCEPT !.callbacks = @ + 1]
onError(g) == [g EXCEPT !.errorCallbacks = @ + 1]

\* ----------------------------------------------------------- StorageManager
\* addJourney with push in place of unshift: the new journey goes to the end
addJourneyAppending(journeys, journey) ==
    SubSeq(journeys \o <<journey>>, 1, Min(Len(journeys) + 1, HistoryCap))

addJourney(journeys, journey) == SubSeq(<<journey>> \o journeys, 1,
                                        IF Len(journeys) + 1 < HistoryCap
                                        THEN Len(journeys) + 1 ELSE HistoryCap)

\* an id already stored has its entry replaced where it is, with a new
\* lastUsed stamp; a new one is put in front; the first DestinationCap entries
\* are saved
addDestination(stored, id, now) ==
    LET entry == [id |-> id, lastUsed |-> now]
        updated == IF \E i \in 1..Len(stored) : stored[i].id = id
                   THEN [i \in 1..Len(stored) |->
                            IF stored[i].id = id THEN entry ELSE stored[i]]
                   ELSE <<entry>> \o stored
    IN  SubSeq(updated, 1, Min(Len(updated), DestinationCap))

\* ------------------------------------------------------------------- hook
Journey(id, loc) ==
    [id |-> id, startTime |-> id, transportMode |-> SampleTransportMode, status |-> "tracking",
     currentLocation |-> loc, alerts |-> <<>>,
     distance |-> calculateDistance(loc, DestinationLocation)]

Alert(alertType, distance) == [type |-> alertType, distance |-> distance]

\* startLocationTracking / stopLocationTracking, as far as the manager goes
startLocationTracking(g) == startTracking(onError(onPositionUpdate(g)))
stopLocationTracking(g) == stopTracking(g)

\* ------------------------------------------------ BackgroundLocationService
NoConfig == [none |-> TRUE]
SmartTrackingConfig == [destinationLocation |-> DestinationLocation, transportMode |-> "walk"]

\* field initialisers of the class; restarts holds the restartLocationTracking
\* calls suspended at an await, stopping the stopTracking call suspended at one.
\* stopped: stopTracking() completed and startSmartTracking() was not called
\* since that stopTracking() was called; forwardedAfterStop: a location update
\* reached the subscribers while stopped.
NewBackgroundLocationService ==
    [watchId |-> NoHandle, config |-> NoConfig, lastKnownLocation |-> NoLocation,
     currentTrackingMode |-> "minimal", watches |-> {},
     starts |-> 0, requests |-> 0, timers |-> 0, restarts |-> <<>>, stopping |-> "no",
     stopped |-> FALSE, startedSinceStop |-> FALSE, forwardedAfterStop |-> FALSE]

\* the speed table with the walking speed as the default
SpeedDefaultWalking(transportMode) ==
    CASE transportMode = "walk" -> 5
      [] transportMode = "bus" -> 25
      [] transportMode = "train" -> 40
      [] transportMode = "car" -> 30
      [] OTHER -> 5

\* km/h
Speed(transportMode) ==
    CASE transportMode = "walk" -> 5
      [] transportMode = "bus" -> 25
      [] transportMode = "train" -> 40
      [] transportMode = "car" -> 30
      [] OTHER -> 25

\* milliseconds, for a distance in metres
estimateArrivalTime(distance, transportMode) == (distance * 3600) \div Speed(transportMode)

\* the selection with `<` in place of `<=` at the five-minute limit
SelectTrackingExclusive(estimatedTimeRemaining) ==
    IF estimatedTimeRemaining < 300000 THEN [mode |-> "precision", interval |-> 30000]
    ELSE IF estimatedTimeRemaining <= 900000 THEN [mode |-> "active", interval |-> 120000]
    ELSE IF estimatedTimeRemaining <= 1800000 THEN [mode |-> "active", interval |-> 300000]
    ELSE [mode |-> "minimal", interval |-> Min(1800000, estimatedTimeRemaining \div 4)]

\* the mode and the delay to the next check that checkAndUpdateTracking picks
SelectTracking(estimatedTimeRemaining) ==
    IF estimatedTimeRemaining <= 300000 THEN [mode |-> "precision", interval |-> 30000]
    ELSE IF estimatedTimeRemaining <= 900000 THEN [mode |-> "active", interval |-> 120000]
    ELSE IF estimatedTimeRemaining <= 1800000 THEN [mode |-> "active", interval |-> 300000]
    ELSE [mode |-> "minimal", interval |-> Min(1800000, estimatedTimeRemaining \div 4)]

\* notifyLocationUpdate after lastKnownLocation was set
notifyLocationUpdate(b, location) ==
    [b EXCEPT !.lastKnownLocation = location,
              !.forwardedAfterStop = @ \/ b.stopped]

\* restartLocationTracking up to its first await
restartLocationTracking(b) ==
    IF b.watchId # NoHandle
    THEN [b EXCEPT !.watches = @ \ {b.watchId},
                   !.restarts = Append(@, [pc |-> "clearWatch", id |-> NoHandle])]
    ELSE LET h == FreshHandle(b.watches)
         IN  [b EXCEPT !.watches = @ \cup {h},
                       !.restarts = Append(@, [pc |-> "watchPosition", id |-> h])]

\* getCurrentLocationAndTrack up to its await
getCurrentLocationAndTrack(b) == [b EXCEPT !.requests = @ + 1]

checkAndUpdateTracking(b) ==
    IF b.config = NoConfig \/ b.lastKnownLocation = NoLocation THEN b
    ELSE LET distance == calculateDistance(b.lastKnownLocation, b.config.destinationLocation)
             newMode  == SelectTracking(estimateArrivalTime(distance, b.config.transportMode)).mode
             b1 == IF newMode # b.currentTrackingMode
                   THEN restartLocationTracking([b EXCEPT !.currentTrackingMode = newMode])
                   ELSE getCurrentLocationAndTrack(b)
         IN  [b1 EXCEPT !.timers = @ + 1]

setupSmartTrackingAlgorithm(b) ==
    IF b.config = NoConfig THEN b ELSE checkAndUpdateTracking(b)

\* what checkAndUpdateTracking may start, within the model's bounds
BgRoom(b) ==
    /\ b.timers < MaxCheckTimers
    /\ b.requests < MaxInFlight
    /\ Len(b.restarts) < MaxRestarts
    /\ Cardinality(b.watches) < MaxWatches

\* startSmartTracking up to the position request of getCurrentLocationAndTrack
BgStartSmartTracking ==
    /\ bg.starts < MaxInFlight
    /\ bg' = [bg EXCEPT !.config = SmartTrackingConfig, !.starts = @ + 1,
                        !.stopped = FALSE, !.startedSinceStop = TRUE,
                        !.forwardedAfterStop = FALSE]
    /\ UNCHANGED hookVars

\* the position arrives: notify, then setupSmartTrackingAlgorithm
BgStartLocated(location) ==
    /\ bg.starts > 0
    /\ BgRoom(bg)
    /\ bg' = setupSmartTrackingAlgorithm(
                 notifyLocationUpdate([bg EXCEPT !.starts = @ - 1], location))
    /\ UNCHANGED hookVars

\* the position request fails: logged, then setupSmartTrackingAlgorithm
BgStartFailed ==
    /\ bg.starts > 0
    /\ BgRoom(bg)
    /\ bg' = setupSmartTrackingAlgorithm([bg EXCEPT !.starts = @ - 1])
    /\ UNCHANGED hookVars

\* the setTimeout(checkAndUpdateTracking) callback
BgCheckTimer ==
    /\ bg.timers > 0
    /\ BgRoom([bg EXCEPT !.timers = @ - 1])
    /\ bg' = checkAndUpdateTracking([bg EXCEPT !.timers = @ - 1])
    /\ UNCHANGED hookVars

\* a position request of the check loop completes
BgRequestDone(location) ==
    /\ bg.requests > 0
    /\ bg' = notifyLocationUpdate([bg EXCEPT !.requests = @ - 1], location)
    /\ UNCHANGED hookVars

BgRequestFailed ==
    /\ bg.requests > 0
    /\ bg' = [bg EXCEPT !.requests = @ - 1]
    /\ UNCHANGED hookVars

RemoveAt(seq, i) == SubSeq(seq, 1, i - 1) \o SubSeq(seq, i + 1, Len(seq))

\* restartLocationTracking resumes after clearWatch: forget the id, ask for a watch
BgRestartCleared(i) ==
    /\ i \in 1..Len(bg.restarts)
    /\ bg.restarts[i].pc = "clearWatch"
    /\ Cardinality(bg.watches) < MaxWatches
    /\ LET h == FreshHandle(bg.watches)
       IN  bg' = [bg EXCEPT !.watchId = NoHandle,
                            !.watches = @ \cup {h},
                            !.restarts[i] = [pc |-> "watchPosition", id |-> h]]
    /\ UNCHANGED hookVars

\* restartLocationTracking resumes after watchPosition: record the id
BgRestartWatching(i) ==
    /\ i \in 1..Len(bg.restarts)
    /\ bg.restarts[i].pc = "watchPosition"
    /\ bg' = [bg EXCEPT !.watchId = bg.restarts[i].id,
                        !.restarts = RemoveAt(@, i)]
    /\ UNCHANGED hookVars

\* the callback of a registered watch
BgWatchDeliver(h, location) ==
    /\ h \in bg.watches
    /\ bg' = notifyLocationUpdate(bg, location)
    /\ UNCHANGED hookVars

\* stopTracking up to its first await
BgStopTracking ==
    /\ bg.stopping = "no"
    /\ bg' = IF bg.watchId # NoHandle
             THEN [bg EXCEPT !.watches = @ \ {bg.watchId}, !.stopping = "clearWatch",
                             !.startedSinceStop = FALSE]
             ELSE [bg EXCEPT !.stopping = "disable", !.startedSinceStop = FALSE]
    /\ UNCHANGED hookVars

\* stopTracking resumes after clearWatch
BgStopCleared ==
    /\ bg.stopping = "clearWatch"
    /\ bg' = [bg EXCEPT !.watchId = NoHandle, !.stopping = "disable"]
    /\ UNCHANGED hookVars

\* stopTracking resumes after BackgroundMode.disable / KeepAwake.allowSleep and returns
BgStopDone ==
    /\ bg.stopping = "disable"
    /\ bg' = [bg EXCEPT !.config = NoConfig, !.currentTrackingMode = "minimal",
                        !.stopping = "no", !.stopped = ~bg.startedSinceStop]
    /\ UNCHANGED hookVars

NextBg ==
    \/ BgStartSmartTracking
    \/ \E p \in SamplePoints : BgStartLocated(p)
    \/ BgStartFailed
    \/ BgCheckTimer
    \/ \E p \in SamplePoints : BgRequestDone(p)
    \/ BgRequestFailed
    \/ \E i \in 1..MaxRestarts : BgRestartCleared(i)
    \/ \E i \in 1..MaxRestarts : BgRestartWatching(i)
    \/ \E h \in 1..MaxWatches, p \in SamplePoints : BgWatchDeliver(h, p)
    \/ BgStopTracking
    \/ BgStopCleared
    \/ BgStopDone

Init ==
    /\ currentJourney = NoJourney
    /\ currentLocation = NoLocation
    /\ isTracking = FALSE
    /\ alertedDistances = {}
    /\ effectPending = FALSE
    /\ pendingDispatch = {}
    /\ pendingEmergency = <<>>
    /\ clearTimers = <<>>
    /\ nextId = 1
    /\ savedJourney = NoJourney
    /\ journeyHistory = <<>>
    /\ gm = NewGeolocationManager
    /\ scriptPos = 0
    /\ bg = NewBackgroundLocationService
    /\ selection = NoSelection
    /\ error = NoError
    /\ notificationPermission = "default"
    /\ destinations = <<>>
    /\ nominatim = NewNominatimService
    /\ estimate = NoEstimate
    /\ measured = NoMeasure
    /\ alarm = NewAlarm


\* ---------------------------------------------------- platform callbacks
\* the callbacks.forEach(...) of the manager reaching handleLocationUpdate
Emit(g, location) ==
    /\ gm' = [g EXCEPT !.lastPosition = location]
    /\ IF g.callbacks > 0
       THEN /\ currentLocation' = location
            /\ error' = NoError
            /\ effectPending' = TRUE
       ELSE UNCHANGED <<currentLocation, effectPending, error>>

\* success callback of navigator.geolocation.watchPosition
watchCallback(location) ==
    /\ gm.watchId # NoHandle
    /\ gm.watchId \in gm.watches
    /\ Emit(gm, location)
    /\ UNCHANGED <<currentJourney, isTracking, alertedDistances, pendingDispatch,
                   pendingEmergency, clearTimers, nextId, savedJourney, journeyHistory, bg, selection,
                   notificationPermission, destinations, nominatim, estimate, measured, alarm>>

WatchDeliver(location) == watchCallback(location) /\ UNCHANGED scriptPos

\* the setInterval callback of startTrackingInterval: one getCurrentPosition request
IntervalTick ==
    /\ gm.intervals # {}
    /\ gm.pollsInFlight < MaxInFlight
    /\ gm' = [gm EXCEPT !.pollsInFlight = @ + 1]
    /\ UNCHANGED <<currentJourney, currentLocation, isTracking, alertedDistances,
                   effectPending, pendingDispatch, pendingEmergency, clearTimers, nextId,
                   savedJourney, journeyHistory, scriptPos, bg, selection, error,
                   notificationPermission, destinations, nominatim, estimate, measured, alarm>>

Significant(g, location) ==
    IF g.lastPosition = NoLocation THEN TRUE
    ELSE \/ Abs(location.lat - g.lastPosition.lat) > SignificantDelta
         \/ Abs(location.lng - g.lastPosition.lng) > SignificantDelta

\* success callback of the getCurrentPosition request made by the interval
PollResult(location) ==
    /\ gm.pollsInFlight > 0
    /\ LET g == [gm EXCEPT !.pollsInFlight = @ - 1]
       IN  IF Significant(g, location)
           THEN Emit(g, location)
           ELSE /\ gm' = g
                /\ UNCHANGED <<currentLocation, effectPending, error,
                   notificationPermission, destinations, nominatim, estimate, measured, alarm>>
    /\ UNCHANGED <<currentJourney, isTracking, alertedDistances, pendingDispatch,
                   pendingEmergency, clearTimers, nextId, savedJourney, journeyHistory,
                   scriptPos, bg, selection,
                   notificationPermission, destinations, nominatim, estimate, measured, alarm>>

\* error callback of that request: logged only
PollError ==
    /\ gm.pollsInFlight > 0
    /\ gm' = [gm EXCEPT !.pollsInFlight = @ - 1]
    /\ UNCHANGED <<currentJourney, currentLocation, isTracking, alertedDistances,
                   effectPending, pendingDispatch, pendingEmergency, clearTimers, nextId,
                   savedJourney, journeyHistory, scriptPos, bg, selection, error,
                   notificationPermission, destinations, nominatim, estimate, measured, alarm>>


\* -------------------------------------------------- journey tracking effect
\* the condition under which checkAndSendAlert emits
AlertDue(alertType, distance, threshold) ==
    distance <= threshold /\ alertType \notin alertedDistances

EffectEnabled ==
    /\ currentJourney # NoJourney
    /\ currentLocation # NoLocation
    /\ currentJourney.status = "tracking"

\* early return of the effect
EffectSkip ==
    /\ effectPending
    /\ ~EffectEnabled
    /\ effectPending' = FALSE
    /\ UNCHANGED <<currentJourney, currentLocation, isTracking, alertedDistances,
                   pendingDispatch, pendingEmergency, clearTimers, nextId, savedJourney,
                   journeyHistory, gm, scriptPos, bg, selection, error,
                   notificationPermission, destinations, nominatim, estimate, measured, alarm>>

\* the three branches that keep the journey tracking: update the journey,
\* check one alert (none when far away), request a tracking mode
EffectTrack(alertType, threshold, mode) ==
    LET distance == calculateDistance(currentLocation, DestinationLocation)
        due      == alertType # "none" /\ AlertDue(alertType, distance, threshold)
        updated  == [currentJourney EXCEPT !.currentLocation = currentLocation,
                                           !.distance = distance]
        journey  == IF due THEN [updated EXCEPT !.alerts = Append(@, Alert(alertType, distance))]
                    ELSE updated
    IN  /\ due => Len(currentJourney.alerts) < MaxAlerts
        /\ currentJourney' = journey
        /\ savedJourney' = journey
        /\ pendingDispatch' = IF due THEN pendingDispatch \cup {alertType} ELSE pendingDispatch
        /\ gm' = setTrackingMode(gm, mode)
        /\ effectPending' = TRUE
        /\ UNCHANGED <<currentLocation, isTracking, alertedDistances, pendingEmergency,
                       clearTimers, nextId, journeyHistory, scriptPos, bg, selection, error,
                   notificationPermission, destinations, nominatim, estimate, measured, alarm>>

\* completeJourney without the timer that clears the journey
completeJourneyKeeping(journey) ==
    LET completedJourney == [journey EXCEPT !.status = "arrived"]
    IN  /\ Len(journeyHistory) < MaxHistory
        /\ currentJourney' = completedJourney
        /\ savedJourney' = completedJourney
        /\ journeyHistory' = addJourney(journeyHistory, completedJourney)
        /\ destinations' = addDestination(destinations, DestinationId, journey.id)
        /\ gm' = stopLocationTracking(gm)
        /\ isTracking' = FALSE
        /\ UNCHANGED clearTimers

\* completeJourney, called by the arrived branch with the journey of the render
completeJourney(journey) ==
    LET completedJourney == [journey EXCEPT !.status = "arrived"]
    IN  /\ Len(clearTimers) < MaxTimers
        /\ Len(journeyHistory) < MaxHistory
        /\ currentJourney' = completedJourney
        /\ savedJourney' = completedJourney
        /\ journeyHistory' = addJourney(journeyHistory, completedJourney)
        /\ destinations' = addDestination(destinations, DestinationId, journey.id)
        /\ gm' = stopLocationTracking(gm)
        /\ isTracking' = FALSE
        /\ clearTimers' = Append(clearTimers, completedJourney.id)

\* distance <= 50: checkAndSendAlert('arrived') queues the alert, then
\* completeJourney replaces the journey by one built from the render's journey
EffectArrived ==
    LET distance == calculateDistance(currentLocation, DestinationLocation)
        due      == AlertDue("arrived", distance, ArrivalThreshold)
    IN  /\ effectPending
        /\ EffectEnabled
        /\ distance <= ArrivalThreshold
        /\ completeJourney(currentJourney)
        /\ pendingDispatch' = IF due THEN pendingDispatch \cup {"arrived"} ELSE pendingDispatch
        /\ effectPending' = TRUE
        /\ UNCHANGED <<currentLocation, alertedDistances, pendingEmergency, nextId,
                       scriptPos, bg, selection, error,
                       notificationPermission, nominatim, estimate, measured, alarm>>

EffectFinal ==
    LET distance == calculateDistance(currentLocation, DestinationLocation)
    IN  /\ effectPending
        /\ EffectEnabled
        /\ distance > ArrivalThreshold
        /\ distance <= FinalThreshold
        /\ EffectTrack("final_warning", FinalThreshold, "precision")

EffectApproaching ==
    LET distance == calculateDistance(currentLocation, DestinationLocation)
    IN  /\ effectPending
        /\ EffectEnabled
        /\ distance > FinalThreshold
        /\ distance <= ApproachingThreshold
        /\ EffectTrack("approaching", ApproachingThreshold, "active")

EffectFar ==
    LET distance == calculateDistance(currentLocation, DestinationLocation)
    IN  /\ effectPending
        /\ EffectEnabled
        /\ distance > ApproachingThreshold
        /\ EffectTrack("none", 0, "minimal")

JourneyTrackingEffect ==
    EffectSkip \/ EffectArrived \/ EffectFinal \/ EffectApproaching \/ EffectFar

\* the rest of checkAndSendAlert, after its awaits: mark the alert as sent
DispatchDone(alertType) ==
    /\ alertType \in pendingDispatch
    /\ pendingDispatch' = pendingDispatch \ {alertType}
    /\ alertedDistances' = alertedDistances \cup {alertType}
    /\ effectPending' = TRUE
    /\ UNCHANGED <<currentJourney, currentLocation, isTracking, pendingEmergency,
                   clearTimers, nextId, savedJourney, journeyHistory, gm,
                   scriptPos, bg, selection, error,
                   notificationPermission, destinations, nominatim, estimate, measured, alarm>>

\* the clear timer without the save effect that follows it
ClearTimerFireKeepingSnapshot(i) ==
    /\ i \in 1..Len(clearTimers)
    /\ clearTimers' = SubSeq(clearTimers, 1, i - 1) \o SubSeq(clearTimers, i + 1, Len(clearTimers))
    /\ currentJourney' = NoJourney
    /\ alertedDistances' = {}
    /\ effectPending' = TRUE
    /\ UNCHANGED <<currentLocation, isTracking, pendingDispatch, pendingEmergency, nextId,
                   savedJourney, journeyHistory, gm, scriptPos, bg, selection, error,
                   notificationPermission, destinations, nominatim, estimate, measured, alarm>>

\* the setTimeout callback of completeJourney / stopJourney; the save effect
\* that follows removes the persisted journey
ClearTimerFire(i) ==
    /\ i \in 1..Len(clearTimers)
    /\ clearTimers' = SubSeq(clearTimers, 1, i - 1) \o SubSeq(clearTimers, i + 1, Len(clearTimers))
    /\ currentJourney' = NoJourney
    /\ savedJourney' = NoJourney
    /\ alertedDistances' = {}
    /\ effectPending' = TRUE
    /\ UNCHANGED <<currentLocation, isTracking, pendingDispatch, pendingEmergency, nextId,
                   journeyHistory, gm, scriptPos, bg, selection, error,
                   notificationPermission, destinations, nominatim, estimate, measured, alarm>>


\* ------------------------------------------------------------ user actions
\* startJourney with location permission granted and the notification
\* permission answered as given (a refusal is only logged); the start screen
\* is offered when no journey is tracking or paused.  requestPermission
\* records the position it obtained and getCurrentPosition (maximumAge > 0)
\* yields the same cached fix as the start location.
startJourneyAs(startLocation, permission) ==
    LET journey == Journey(nextId, startLocation)
    IN  /\ notificationPermission' = permission
        /\ gm.callbacks < MaxCallbacks
        /\ currentJourney = NoJourney \/ currentJourney.status \in {"arrived", "stopped"}
        /\ currentJourney' = journey
        /\ savedJourney' = journey
        /\ currentLocation' = startLocation
        /\ alertedDistances' = {}
        /\ gm' = startLocationTracking([gm EXCEPT !.lastPosition = startLocation])
        /\ isTracking' = TRUE
        /\ nextId' = nextId + 1
        /\ effectPending' = TRUE
        /\ UNCHANGED <<pendingDispatch, pendingEmergency, clearTimers, journeyHistory, bg,
                       selection, error, destinations, nominatim, estimate, measured, alarm>>

startJourneyWith(startLocation, permission) ==
    /\ nextId <= MaxJourneys
    /\ startJourneyAs(startLocation, permission)

\* both permissions granted
startJourney(startLocation) == startJourneyWith(startLocation, "granted")

StartJourney(startLocation) == startJourney(startLocation) /\ UNCHANGED scriptPos

\* the body of stopJourney for the journey its closure holds
stopJourneyAs(journey) ==
    LET stoppedJourney == [journey EXCEPT !.status = "stopped"]
    IN  /\ currentJourney' = stoppedJourney
        /\ savedJourney' = stoppedJourney
        /\ journeyHistory' = addJourney(journeyHistory, stoppedJourney)
        /\ gm' = stopLocationTracking(gm)
        /\ isTracking' = FALSE
        /\ clearTimers' = Append(clearTimers, stoppedJourney.id)
        /\ effectPending' = TRUE

stopJourneyOf(journey) ==
    /\ Len(clearTimers) < MaxTimers
    /\ Len(journeyHistory) < MaxHistory
    /\ stopJourneyAs(journey)

StopJourney ==
    /\ currentJourney # NoJourney
    /\ stopJourneyOf(currentJourney)
    /\ UNCHANGED <<currentLocation, alertedDistances, pendingDispatch, pendingEmergency,
                   nextId, scriptPos, bg, selection, error,
                   notificationPermission, destinations, nominatim, estimate, measured, alarm>>

\* pauseJourney rebuilding the journey without its alerts
PauseJourneyLosingAlerts ==
    /\ currentJourney # NoJourney
    /\ currentJourney.status # "paused"
    /\ currentJourney' = [currentJourney EXCEPT !.status = "paused", !.alerts = <<>>]
    /\ savedJourney' = currentJourney'
    /\ gm' = stopLocationTracking(gm)
    /\ isTracking' = FALSE
    /\ effectPending' = TRUE
    /\ UNCHANGED <<currentLocation, alertedDistances, pendingDispatch, pendingEmergency,
                   clearTimers, nextId, journeyHistory, scriptPos, bg, selection, error,
                   notificationPermission, destinations, nominatim, estimate, measured, alarm>>

\* the Pause button is shown while the journey is not paused
PauseJourney ==
    /\ currentJourney # NoJourney
    /\ currentJourney.status # "paused"
    /\ currentJourney' = [currentJourney EXCEPT !.status = "paused"]
    /\ savedJourney' = currentJourney'
    /\ gm' = stopLocationTracking(gm)
    /\ isTracking' = FALSE
    /\ effectPending' = TRUE
    /\ UNCHANGED <<currentLocation, alertedDistances, pendingDispatch, pendingEmergency,
                   clearTimers, nextId, journeyHistory, scriptPos, bg, selection, error,
                   notificationPermission, destinations, nominatim, estimate, measured, alarm>>

\* the Resume button is shown while the journey is paused
ResumeJourney ==
    /\ currentJourney # NoJourney
    /\ currentJourney.status = "paused"
    /\ gm.callbacks < MaxCallbacks
    /\ currentJourney' = [currentJourney EXCEPT !.status = "tracking"]
    /\ savedJourney' = currentJourney'
    /\ gm' = startLocationTracking(gm)
    /\ isTracking' = TRUE
    /\ effectPending' = TRUE
    /\ UNCHANGED <<currentLocation, alertedDistances, pendingDispatch, pendingEmergency,
                   clearTimers, nextId, journeyHistory, scriptPos, bg, selection, error,
                   notificationPermission, destinations, nominatim, estimate, measured, alarm>>

\* emergencyStop up to its await: the closure keeps the journey of this render
EmergencyStop ==
    /\ currentJourney # NoJourney
    /\ Len(pendingEmergency) < MaxEmergency
    /\ pendingEmergency' = Append(pendingEmergency, currentJourney)
    /\ UNCHANGED <<currentJourney, currentLocation, isTracking, alertedDistances,
                   effectPending, pendingDispatch, clearTimers, nextId, savedJourney,
                   journeyHistory, gm, scriptPos, bg, selection, error,
                   notificationPermission, destinations, nominatim, estimate, measured, alarm>>

\* emergencyStop after its await: stopJourney() of the captured render, then
\* showEmergencyAlert
EmergencyContinue ==
    /\ pendingEmergency # <<>>
    /\ stopJourneyOf(Head(pendingEmergency))
    /\ pendingEmergency' = Tail(pendingEmergency)
    /\ UNCHANGED <<currentLocation, alertedDistances, pendingDispatch, nextId, scriptPos, bg, selection, error,
                   notificationPermission, destinations, nominatim, estimate, measured, alarm>>

\* the page is loaded again: every in-memory object is rebuilt, timers and
\* suspended calls are gone, and the initialisation effect restores the
\* persisted journey unless it is stopped or arrived
Reload ==
    LET restore == savedJourney # NoJourney /\ savedJourney.status \notin {"stopped", "arrived"}
    IN  /\ currentJourney' = IF restore THEN savedJourney ELSE NoJourney
        /\ savedJourney' = currentJourney'
        /\ currentLocation' = NoLocation
        /\ alertedDistances' = {}
        /\ pendingDispatch' = {}
        /\ pendingEmergency' = <<>>
        /\ clearTimers' = <<>>
        /\ gm' = IF restore THEN startLocationTracking(NewGeolocationManager)
                 ELSE NewGeolocationManager
        /\ isTracking' = restore
        /\ effectPending' = restore
        /\ error' = NoError
        /\ UNCHANGED <<nextId, journeyHistory, scriptPos, bg, selection,
                       notificationPermission, destinations, nominatim, estimate, measured, alarm>>

\* ------------------------------------------------ the documented test sequence
\* the journey starts at the first point of TestSequence
ScriptStart ==
    /\ scriptPos = 0
    /\ startJourney(TestPoint(1))
    /\ scriptPos' = 1

\* the watch delivers the next point once the effect has processed the last
\* one; the fallback poll obtains no position of its own
ScriptDeliver ==
    /\ scriptPos \in 1..(Len(TestSequence) - 1)
    /\ currentJourney.status = "tracking"
    /\ currentJourney.currentLocation = currentLocation
    /\ watchCallback(TestPoint(scriptPos + 1))
    /\ scriptPos' = scriptPos + 1

NextSeq ==
    \/ ScriptStart
    \/ ScriptDeliver
    \/ IntervalTick
    \/ PollError
    \/ JourneyTrackingEffect
    \/ \E t \in AlertTypes : DispatchDone(t)
    \/ \E i \in 1..MaxTimers : ClearTimerFire(i)

Next ==
    \/ \E p \in SamplePoints : StartJourney(p)
    \/ \E p \in SamplePoints : WatchDeliver(p)
    \/ IntervalTick
    \/ \E p \in SamplePoints : PollResult(p)
    \/ PollError
    \/ JourneyTrackingEffect
    \/ \E t \in AlertTypes : DispatchDone(t)
    \/ \E i \in 1..MaxTimers : ClearTimerFire(i)
    \/ StopJourney
    \/ PauseJourney
    \/ ResumeJourney
    \/ EmergencyStop
    \/ EmergencyContinue
    \/ Reload

Spec == Init /\ [][Next]_vars

SpecBg == Init /\ [][NextBg]_vars

SpecSeq == Init /\ [][NextSeq]_vars

\* ------------------------------------------------- startJourney that fails
\* startJourney subscribing and starting the sampler before it asks for permission
StartJourneyDeniedWhileSampling ==
    /\ currentJourney = NoJourney \/ currentJourney.status \in {"arrived", "stopped"}
    /\ gm.callbacks < MaxCallbacks
    /\ gm' = startLocationTracking(gm)
    /\ isTracking' = TRUE
    /\ error' = PermissionRequired
    /\ UNCHANGED <<currentJourney, currentLocation, alertedDistances,
                   effectPending, pendingDispatch, pendingEmergency, clearTimers, nextId,
                   savedJourney, journeyHistory, scriptPos, bg, selection,
                   notificationPermission, destinations, nominatim, estimate, measured, alarm>>

\* requestPermission resolves false: startJourney throws, and its catch
\* sets the error state
StartJourneyDenied ==
    /\ currentJourney = NoJourney \/ currentJourney.status \in {"arrived", "stopped"}
    /\ error' = PermissionRequired
    /\ UNCHANGED <<currentJourney, currentLocation, isTracking, alertedDistances,
                   effectPending, pendingDispatch, pendingEmergency, clearTimers, nextId,
                   savedJourney, journeyHistory, gm, scriptPos, bg, selection,
                   notificationPermission, destinations, nominatim, estimate, measured, alarm>>

\* permission granted (requestPermission records its fix), then
\* getCurrentPosition rejects: the catch sets the error state
StartJourneyPositionFailed(location) ==
    /\ currentJourney = NoJourney \/ currentJourney.status \in {"arrived", "stopped"}
    /\ gm' = [gm EXCEPT !.lastPosition = location]
    /\ error' = PositionError
    /\ UNCHANGED <<currentJourney, currentLocation, isTracking, alertedDistances,
                   effectPending, pendingDispatch, pendingEmergency, clearTimers, nextId,
                   savedJourney, journeyHistory, scriptPos, bg, selection,
                   notificationPermission, destinations, nominatim, estimate, measured, alarm>>

\* location permission granted, notification permission refused:
\* startJourney logs a warning and goes on
StartJourneyNotificationsRefused(startLocation) ==
    /\ startJourneyWith(startLocation, "denied")
    /\ UNCHANGED scriptPos

\* the error callback giving up the watch
WatchErrorStopping ==
    /\ gm.watchId # NoHandle
    /\ gm.watchId \in gm.watches
    /\ gm.errorCallbacks > 0
    /\ error' = PositionError
    /\ gm' = stopTracking(gm)
    /\ UNCHANGED <<currentJourney, currentLocation, isTracking, alertedDistances,
                   effectPending, pendingDispatch, pendingEmergency, clearTimers, nextId,
                   savedJourney, journeyHistory, scriptPos, bg, selection,
                   notificationPermission, destinations, nominatim, estimate, measured, alarm>>

\* error callback of the watch reaching handleLocationError
WatchError ==
    /\ gm.watchId # NoHandle
    /\ gm.watchId \in gm.watches
    /\ gm.errorCallbacks > 0
    /\ error' = PositionError
    /\ UNCHANGED <<currentJourney, currentLocation, isTracking, alertedDistances,
                   effectPending, pendingDispatch, pendingEmergency, clearTimers, nextId,
                   savedJourney, journeyHistory, gm, scriptPos, bg, selection,
                   notificationPermission, destinations, nominatim, estimate, measured, alarm>>

\* starting and stopping journeys with the sampler's callbacks; what the
\* tracking effect does with the samples is left to Next
NextStart ==
    \/ StartJourneyDenied
    \/ \E p \in SamplePoints : StartJourneyPositionFailed(p)
    \/ \E p \in SamplePoints : StartJourney(p)
    \/ \E p \in SamplePoints : StartJourneyNotificationsRefused(p)
    \/ \E p \in SamplePoints : WatchDeliver(p)
    \/ WatchError
    \/ \E i \in 1..MaxTimers : ClearTimerFire(i)
    \/ StopJourney

SpecStart == Init /\ [][NextStart]_vars

\* ------------------------------------------- journeys left alone once ended
\* the user acts only while the journey has not arrived and was not stopped
JourneyNotEnded == currentJourney.status \notin {"arrived", "stopped"}

StartJourneyFirst(startLocation) == JourneyNotEnded /\ StartJourney(startLocation)
StopJourneyOnce == JourneyNotEnded /\ StopJourney
PauseJourneyRunning == JourneyNotEnded /\ PauseJourney

NextEnding ==
    \/ \E p \in SamplePoints : StartJourneyFirst(p)
    \/ \E p \in SamplePoints : WatchDeliver(p)
    \/ JourneyTrackingEffect
    \/ \E t \in AlertTypes : DispatchDone(t)
    \/ \E i \in 1..MaxTimers : ClearTimerFire(i)
    \/ StopJourneyOnce
    \/ PauseJourneyRunning
    \/ ResumeJourney

\* a timer set with setTimeout fires once its delay has passed
SpecEnding ==
    /\ Init
    /\ [][NextEnding]_vars
    /\ WF_vars(\E i \in 1..MaxTimers : ClearTimerFire(i))

\* ------------------------------------------- GeolocationManager, called directly
\* everything but the manager
notGm == <<currentJourney, currentLocation, isTracking, alertedDistances, effectPending,
           pendingDispatch, pendingEmergency, clearTimers, nextId,
           savedJourney, journeyHistory, scriptPos, bg, selection, error,
                   notificationPermission, destinations, nominatim, estimate, measured, alarm>>

GmStartTracking ==
    /\ gm' = startTracking(gm)
    /\ UNCHANGED notGm

GmStopTracking ==
    /\ gm' = stopTracking(gm)
    /\ UNCHANGED notGm

GmSetTrackingMode(mode) ==
    /\ gm' = setTrackingMode(gm, mode)
    /\ UNCHANGED notGm

\* enableBackgroundTracking on a native platform, up to the await of
\* startSmartTracking (the service's own state is that of the Bg actions)
GmEnableBackgroundTracking ==
    /\ gm.enabling < MaxInFlight
    /\ gm' = [gm EXCEPT !.enabling = @ + 1]
    /\ UNCHANGED notGm

\* startSmartTracking resolved
GmEnableDone ==
    /\ gm.enabling > 0
    /\ gm' = [gm EXCEPT !.enabling = @ - 1, !.isBackgroundMode = TRUE]
    /\ UNCHANGED notGm

\* startSmartTracking rejected: logged, returns false
GmEnableFailed ==
    /\ gm.enabling > 0
    /\ gm' = [gm EXCEPT !.enabling = @ - 1]
    /\ UNCHANGED notGm

\* disableBackgroundTracking up to the await of the service's stopTracking
GmDisableBackgroundTracking ==
    /\ gm.isBackgroundMode
    /\ gm.disabling < MaxInFlight
    /\ gm' = [gm EXCEPT !.disabling = @ + 1]
    /\ UNCHANGED notGm

\* the service's stopTracking resolved
GmDisableDone ==
    /\ gm.disabling > 0
    /\ gm' = [gm EXCEPT !.disabling = @ - 1, !.isBackgroundMode = FALSE]
    /\ UNCHANGED notGm

\* the listener registered by initializeBackgroundService, while the service tracks
GmBackgroundUpdate(location) ==
    /\ gm.enabling > 0 \/ gm.isBackgroundMode
    /\ Emit(gm, location)
    /\ UNCHANGED <<currentJourney, isTracking, alertedDistances, pendingDispatch,
                   pendingEmergency, clearTimers, nextId, savedJourney, journeyHistory,
                   scriptPos, bg, selection,
                   notificationPermission, destinations, nominatim, estimate, measured, alarm>>

\* onPositionUpdate and onError, as startLocationTracking calls them
GmSubscribe ==
    /\ gm.callbacks < MaxCallbacks
    /\ gm' = onError(onPositionUpdate(gm))
    /\ UNCHANGED notGm

\* requestPermission obtaining a position: it is recorded, not emitted
GmRequestPermission(location) ==
    /\ gm' = [gm EXCEPT !.lastPosition = location]
    /\ UNCHANGED notGm

NextGm ==
    \/ GmSubscribe
    \/ \E p \in SamplePoints : GmRequestPermission(p)
    \/ WatchError
    \/ GmStartTracking
    \/ GmStopTracking
    \/ \E mode \in TrackingModes : GmSetTrackingMode(mode)
    \/ GmEnableBackgroundTracking
    \/ GmEnableDone
    \/ GmEnableFailed
    \/ GmDisableBackgroundTracking
    \/ GmDisableDone
    \/ \E p \in SamplePoints : GmBackgroundUpdate(p)
    \/ \E p \in SamplePoints : WatchDeliver(p)
    \/ IntervalTick
    \/ \E p \in PollPoints : PollResult(p)
    \/ PollError

SpecGm == Init /\ [][NextGm]_vars

\* ------------------------------------------------- tracking-mode selection
\* checkAndUpdateTracking's choice for one estimated time remaining
Select(estimatedTimeRemaining) ==
    /\ selection' = [eta |-> estimatedTimeRemaining] @@ SelectTracking(estimatedTimeRemaining)
    /\ UNCHANGED <<currentJourney, currentLocation, isTracking, alertedDistances,
                   effectPending, pendingDispatch, pendingEmergency, clearTimers, nextId,
                   savedJourney, journeyHistory, gm, scriptPos, bg, error,
                   notificationPermission, destinations, nominatim, estimate, measured, alarm>>

NextSelect == \E eta \in SampleEtas : Select(eta)

SpecSelect == Init /\ [][NextSelect]_vars

\* ------------------------------------------------------------- properties
CountType(alerts, alertType) ==
    Cardinality({i \in 1..Len(alerts) : alerts[i].type = alertType})

Stage(alertType) ==
    CASE alertType = "first_warning" -> 1
      [] alertType = "approaching" -> 2
      [] alertType = "final_warning" -> 3
      [] alertType = "arrived" -> 4
      [] OTHER -> 5

IsPrefix(s, t) == Len(s) <= Len(t) /\ SubSeq(t, 1, Len(s)) = s

\* C1: within one journey no alert type is appended to the journey's alerts
\* more than once, whatever the samples and however sample processing
\* interleaves with a pending notification dispatch.
C1_NoAlertTypeTwice ==
    \A t \in AlertTypes : CountType(currentJourney.alerts, t) <= 1

\* C2: after the samples 5000, 900, 150, 40 were processed the arrived journey
\* holds exactly approaching@900, final_warning@150, arrived@40, in this order.
C2_TestSequenceAlerts ==
    (scriptPos = Len(TestSequence) /\ currentJourney.status = "arrived")
        => currentJourney.alerts = <<Alert("approaching", 900), Alert("final_warning", 150),
                                     Alert("arrived", 40)>>

\* C3: emergencyStop leaves a journey that is stopped and whose alerts hold
\* exactly one alert of type emergency.
C3_EmergencyStopOutcome ==
    [][EmergencyContinue =>
          /\ currentJourney'.status = "stopped"
          /\ CountType(currentJourney'.alerts, "emergency") = 1]_vars

\* C4: an alert of an earlier stage is never appended after one of a later stage.
C4_StagesForwardOnly ==
    \A i, j \in 1..Len(currentJourney.alerts) :
        i < j => Stage(currentJourney.alerts[i].type) <= Stage(currentJourney.alerts[j].type)

\* C5: processing a sample within 50 m of the destination for a tracking
\* journey stops the sampler (no watch, no poll timer), makes the journey
\* arrived and puts the completed journey at the head of the history.
C5_ArrivalStopsSampler ==
    [][EffectArrived =>
          /\ gm'.watchId = NoHandle
          /\ gm'.trackingInterval = NoHandle
          /\ gm'.watches = {}
          /\ gm'.intervals = {}
          /\ ~isTracking'
          /\ currentJourney'.status = "arrived"
          /\ journeyHistory' # <<>>
          /\ journeyHistory'[1] = currentJourney']_vars

\* C5 witness: a journey arrived from precision mode (watch and poll timer
\* were running), the sampler is stopped and the journey heads the history.
C5_Witness ==
    /\ currentJourney.status = "arrived"
    /\ currentLocation # NoLocation
    /\ gm.trackingMode = "precision"
    /\ gm.watchId = NoHandle
    /\ gm.trackingInterval = NoHandle
    /\ journeyHistory # <<>>
    /\ journeyHistory[1] = currentJourney

\* C6: when the arrived transition fires, the journey and its history entry
\* hold exactly one arrived alert together with every earlier alert.
C6_ArrivedAlertKept ==
    [][EffectArrived =>
          /\ CountType(currentJourney'.alerts, "arrived") = 1
          /\ IsPrefix(currentJourney.alerts, currentJourney'.alerts)
          /\ journeyHistory' # <<>>
          /\ CountType(journeyHistory'[1].alerts, "arrived") = 1
          /\ IsPrefix(currentJourney.alerts, journeyHistory'[1].alerts)]_vars

\* stopTracking() returned and startTracking() was not called since: the
\* handlers were subscribed right before a startTracking() and only
\* stopTracking() resets the watch id
GmStopped == gm.watchId = NoHandle /\ gm.callbacks > 0 /\ ~gm.isBackgroundMode

\* a step that invokes the position subscribers
EmitStep ==
    /\ gm.callbacks > 0
    /\ \E p \in SamplePoints :
          \/ WatchDeliver(p)
          \/ PollResult(p) /\ Significant(gm, p)

\* C7: after stopTracking() no position subscriber is invoked until
\* startTracking() is called, a poll request in flight included.
C7_NoEmitAfterStop == [][GmStopped => ~EmitStep]_vars

\* C8: once stopTracking() of the background service completed, no platform
\* watch is registered and no location update was forwarded since.
C8_BackgroundStopFinal ==
    bg.stopped => (bg.watches = {} /\ ~bg.forwardedAfterStop)

\* C9: pause and resume leave the journey's id, startTime and alerts (and
\* everything but the sampling activity) as they are; resume makes the
\* paused journey tracking again and restarts the sampler that pause stopped.
C9_PauseResumePreserves ==
    [][(PauseJourney \/ ResumeJourney) =>
          /\ currentJourney'.id = currentJourney.id
          /\ currentJourney'.startTime = currentJourney.startTime
          /\ currentJourney'.alerts = currentJourney.alerts
          /\ currentJourney'.distance = currentJourney.distance
          /\ UNCHANGED <<currentLocation, alertedDistances, journeyHistory, nextId>>
          /\ PauseJourney => (currentJourney'.status = "paused" /\ gm'.watches = {})
          /\ ResumeJourney => (currentJourney.status = "paused"
                               /\ currentJourney'.status = "tracking"
                               /\ gm'.watchId \in gm'.watches)]_vars

\* C9 witness: a journey with an alert was paused and resumed (the handlers
\* were subscribed a second time) and is tracking again.
C9_Witness ==
    /\ currentJourney.status = "tracking"
    /\ currentJourney.alerts # <<>>
    /\ gm.callbacks = 2
    /\ gm.watchId # NoHandle
    /\ isTracking

\* C10: while the journey is paused no position watch and no poll timer is
\* active, also after a persisted paused journey was restored at start-up.
C10_PausedNotSampling ==
    currentJourney.status = "paused"
        => (gm.watchId = NoHandle /\ gm.trackingInterval = NoHandle
            /\ gm.watches = {} /\ gm.intervals = {})

\* C11: once the status of a journey is arrived or stopped, it is never
\* tracking or paused again for that journey, whatever is called before the
\* journey is cleared.
C11_StatusForwardOnly ==
    [][(currentJourney.status \in {"arrived", "stopped"}
        /\ currentJourney'.id = currentJourney.id)
           => currentJourney'.status \in {"arrived", "stopped"}]_vars

Minutes(m) == m * 60000

\* C12: the selection maps an ETA of at most 5 min to (precision, 30 s), of
\* at most 15 min to (active, 120 s), of at most 30 min to (active, 300 s),
\* and any longer ETA to (minimal, min(30 min, ETA / 4)).
C12_SelectorTable ==
    selection # NoSelection =>
        LET eta == selection.eta
            chosen == <<selection.mode, selection.interval>>
        IN  /\ eta <= Minutes(5) => chosen = <<"precision", 30000>>
            /\ (Minutes(5) < eta /\ eta <= Minutes(15)) => chosen = <<"active", 120000>>
            /\ (Minutes(15) < eta /\ eta <= Minutes(30)) => chosen = <<"active", 300000>>
            /\ Minutes(30) < eta =>
                   /\ selection.mode = "minimal"
                   /\ selection.interval * 4 = Min(Minutes(120), eta)
            /\ eta = Minutes(4) => selection.mode = "precision"
            /\ eta = Minutes(10) => selection.mode = "active"
            /\ eta = Minutes(25) => selection.mode = "active"
            /\ eta = Minutes(120) => chosen = <<"minimal", Minutes(30)>>

\* C12 witness: an ETA of 120 min was given and minimal with a 30 min delay chosen.
C12_Witness ==
    /\ selection.eta = Minutes(120)
    /\ selection.mode = "minimal"
    /\ selection.interval = Minutes(30)

\* fidelity order of the tracking modes
ModeRank(mode) ==
    CASE mode = "minimal" -> 1
      [] mode = "active" -> 2
      [] mode = "precision" -> 3

\* C13: processing a sample in the tracking effect never moves the sampler
\* to a tracking mode of lower fidelity (minimal < active < precision).
C13_EffectOnlyEscalates ==
    [][JourneyTrackingEffect =>
          ModeRank(gm'.trackingMode) >= ModeRank(gm.trackingMode)]_vars

\* C14: when the effect processes a sample farther away than the approaching
\* threshold whose ETA for the journey's transport mode is at most 10 min,
\* and first_warning has not fired yet, a first_warning alert is appended.
C14_FirstWarningAppended ==
    [][(/\ EffectFar
        /\ estimateArrivalTime(calculateDistance(currentLocation, DestinationLocation),
                               currentJourney.transportMode) <= Minutes(10)
        /\ "first_warning" \notin alertedDistances
        /\ CountType(currentJourney.alerts, "first_warning") = 0)
           => CountType(currentJourney'.alerts, "first_warning") = 1]_vars

\* C15: the manager has at most one position watch and at most one poll
\* timer registered with the platform, and they are the ones it holds the
\* ids of, after any sequence of startTracking, stopTracking and
\* setTrackingMode calls.
C15_OneWatchOneTimer ==
    /\ Cardinality(gm.watches) <= 1
    /\ Cardinality(gm.intervals) <= 1
    /\ gm.watches \subseteq {gm.watchId}
    /\ gm.intervals \subseteq {gm.trackingInterval}

\* C15 witness: the watch was swapped (the platform issued a second id) while
\* a poll timer runs, and only the new watch and one timer are registered.
C15_Witness ==
    /\ gm.watchId = 2
    /\ gm.watches = {2}
    /\ gm.trackingInterval # NoHandle
    /\ gm.intervals = {gm.trackingInterval}

\* C16: while background tracking is active the manager has no position
\* watch and no poll timer registered.
C16_BackgroundSuppressesForeground ==
    gm.isBackgroundMode => (gm.watches = {} /\ gm.intervals = {})

\* C17: when the tracking effect requests the mode the manager already has,
\* the registered watch and poll timer stay as they are (no clearWatch, no
\* new watch).
C17_SameModeNoRestart ==
    [][((EffectFinal \/ EffectApproaching \/ EffectFar)
        /\ gm'.trackingMode = gm.trackingMode)
          => (gm'.watchId = gm.watchId /\ gm'.watches = gm.watches)]_vars

C19_NoRepeatAfterRestore ==
    [][\A t \in AlertTypes :
          (/\ JourneyTrackingEffect
           /\ t \notin pendingDispatch
           /\ CountType(currentJourney.alerts, t) >= 1)
              => CountType(currentJourney'.alerts, t) = CountType(currentJourney.alerts, t)]_vars

\* C20: when location permission is refused, startJourney creates no
\* journey, registers no subscriber, watch or timer, persists nothing, sets
\* the error state, and leaves nothing behind that would try again.
C20_PermissionDenied ==
    [][StartJourneyDenied =>
          /\ error' = PermissionRequired
          /\ UNCHANGED <<currentJourney, savedJourney, journeyHistory, nextId>>
          /\ UNCHANGED <<gm, isTracking, currentLocation>>
          /\ UNCHANGED <<effectPending, pendingDispatch, pendingEmergency, clearTimers>>]_vars

\* C20 witness: permission was refused with no journey: the error is set,
\* there is no journey, and nothing samples.
C20_Witness ==
    /\ error = PermissionRequired
    /\ currentJourney = NoJourney
    /\ savedJourney = NoJourney
    /\ nextId = 1
    /\ gm.watches = {}
    /\ gm.callbacks = 0
    /\ ~isTracking

\* C21: when notification access is refused at the start of a journey, the
\* start is aborted: no journey is created or persisted, no sampling begins,
\* and the refusal is reported in the error state.
C21_NotificationRefusalAborts ==
    [][(\E p \in SamplePoints : StartJourneyNotificationsRefused(p)) =>
          /\ error' # NoError
          /\ UNCHANGED <<currentJourney, savedJourney, nextId>>
          /\ gm'.watches = gm.watches
          /\ gm'.callbacks = gm.callbacks
          /\ isTracking' = isTracking]_vars

\* C22: once a journey has arrived or was stopped and the user does nothing
\* more, the current journey is eventually cleared and the set of fired
\* alert types reset, by the grace timer.
C22_EndedJourneyCleared ==
    (currentJourney.status \in {"arrived", "stopped"})
        ~> (currentJourney = NoJourney /\ alertedDistances = {})

\* C22 witness: a journey ended, was recorded in the history, and was cleared
\* by its timer.
C22_Witness ==
    /\ journeyHistory # <<>>
    /\ currentJourney = NoJourney
    /\ savedJourney = NoJourney
    /\ alertedDistances = {}
    /\ clearTimers = <<>>

\* C23: while the background service is configured and startSmartTracking
\* has returned, a next check of the reevaluation loop is scheduled, also
\* when the first position request failed.
C23_LoopKeepsRunning ==
    (bg.config # NoConfig /\ bg.starts = 0 /\ bg.stopping = "no") => bg.timers > 0

\* C24: an acquisition error of the watch reaches the error subscribers and
\* changes nothing else: the watch, the poll timer and the last position of
\* the manager stay as they were.
C24_WatchErrorOnlyReported ==
    [][WatchError =>
          /\ error' = PositionError
          /\ gm' = gm
          /\ UNCHANGED <<currentLocation, currentJourney, isTracking>>]_vars

\* C24 witness: an error was reported while a watch and a poll timer are
\* registered and a position is known.
C24_Witness ==
    /\ error = PositionError
    /\ gm.watchId \in gm.watches
    /\ gm.trackingInterval \in gm.intervals
    /\ gm.lastPosition # NoLocation
    /\ gm.errorCallbacks > 0

\* more than 0.0001 degrees apart in latitude or in longitude
FarFrom(p, q) ==
    \/ Abs(p.lat - q.lat) > SignificantDelta
    \/ Abs(p.lng - q.lng) > SignificantDelta

\* C25: a poll result that is within 0.0001 degrees, in latitude and in
\* longitude, of the last sample emitted to the subscribers is dropped: it
\* is not forwarded and the last position stays as it is.
C25_PollForwardedOnlyIfMoved ==
    [][\A p \in PollPoints :
          (/\ PollResult(p)
           /\ gm.callbacks > 0
           /\ currentLocation # NoLocation
           /\ ~FarFrom(p, currentLocation))
              => (gm'.lastPosition = gm.lastPosition /\ currentLocation' = currentLocation
                  /\ effectPending' = effectPending)]_vars

\* C26: the tracking mode of the sampler is kept from pause to resume: no
\* step that pauses a journey, leaves it paused or resumes it changes the
\* mode, so that resume restarts sampling in the mode that pause found.
C26_ModeKeptAcrossPause ==
    [][(/\ currentJourney # NoJourney
        /\ currentJourney'.id = currentJourney.id
        /\ currentJourney.status = "paused" \/ currentJourney'.status = "paused")
           => gm'.trackingMode = gm.trackingMode]_vars


\* ------------------------------------------- the journey history on its own
\* the history as a long series of journeys leaves it: journeys end one
\* after the other, by arriving or by being stopped, and a journey that has
\* arrived can still be stopped during its grace period
notHistory == <<currentJourney, currentLocation, isTracking, alertedDistances, effectPending,
                pendingDispatch, pendingEmergency, clearTimers,
                savedJourney, gm, scriptPos, bg, selection, error,
                notificationPermission, destinations, nominatim, estimate, measured, alarm>>

\* the journeys of the series that the user may stop: an early one, and the
\* ones that end when the history is full
StoppedJourneys == {2, HistoryCap, HistoryCap + 1}

\* completeJourney's addJourney call for the next journey
HistoryComplete ==
    /\ nextId <= MaxStoredJourneys
    /\ journeyHistory' = addJourney(journeyHistory,
                                    [Journey(nextId, TestPoint(1)) EXCEPT !.status = "arrived"])
    /\ nextId' = nextId + 1
    /\ UNCHANGED notHistory

\* stopJourney's addJourney call for the next journey
HistoryStop ==
    /\ nextId <= MaxStoredJourneys
    /\ nextId \in StoppedJourneys
    /\ journeyHistory' = addJourney(journeyHistory,
                                    [Journey(nextId, TestPoint(1)) EXCEPT !.status = "stopped"])
    /\ nextId' = nextId + 1
    /\ UNCHANGED notHistory

\* stopJourney's addJourney call for the journey that has just arrived
HistoryStopArrived ==
    /\ Len(journeyHistory) > 0
    /\ journeyHistory[1].status = "arrived"
    /\ journeyHistory[1].id = nextId - 1
    /\ journeyHistory[1].id \in StoppedJourneys
    /\ journeyHistory' = addJourney(journeyHistory,
                                    [journeyHistory[1] EXCEPT !.status = "stopped"])
    /\ UNCHANGED <<nextId, notHistory>>

NextHistory == HistoryComplete \/ HistoryStop \/ HistoryStopArrived

SpecHistory == Init /\ [][NextHistory]_vars

\* C27: the journey history holds at most 100 entries, most recent first:
\* every step that adds a journey puts it in the first place, moves each
\* entry kept one place down and drops only the last, oldest, entry, and
\* only when the history is full.
C27_HistoryCappedRecentFirst ==
    [][journeyHistory' # journeyHistory =>
          /\ Len(journeyHistory') <= HistoryCap
          /\ Len(journeyHistory') = Min(Len(journeyHistory) + 1, HistoryCap)
          /\ journeyHistory'[1].id >= nextId - 1
          /\ \A i \in 2..Len(journeyHistory') : journeyHistory'[i] = journeyHistory[i - 1]
          /\ \A i \in 2..Len(journeyHistory') :
                journeyHistory'[i - 1].startTime >= journeyHistory'[i].startTime]_vars

\* C27 witness: the history is full and its oldest journeys have been dropped
C27_Witness ==
    /\ Len(journeyHistory) = HistoryCap
    /\ journeyHistory[HistoryCap].id > 1
    /\ journeyHistory[1].id = nextId - 1


\* ------------------------------------------ the stored destinations on their own
\* addDestination called over and over; nextId is the clock that stamps
\* lastUsed, and a destination has the stamp of its first use as its id
notDestinations == <<currentJourney, currentLocation, isTracking, alertedDistances, effectPending,
                     pendingDispatch, pendingEmergency, clearTimers,
                     savedJourney, journeyHistory, gm, scriptPos, bg, selection, error,
                     notificationPermission, nominatim, estimate, measured, alarm>>

ReusedDestinations ==
    {i \in 1..Len(destinations) : destinations[i].lastUsed # destinations[i].id}

\* a destination not stored yet
AddNewDestination ==
    /\ nextId <= MaxDestinationCalls
    /\ destinations' = addDestination(destinations, nextId, nextId)
    /\ nextId' = nextId + 1
    /\ UNCHANGED notDestinations

\* a destination already stored is used again
ReuseDestination(i) ==
    /\ nextId <= MaxDestinationCalls
    /\ i \in 1..Len(destinations)
    /\ Cardinality(ReusedDestinations) < MaxReused
    /\ destinations' = addDestination(destinations, destinations[i].id, nextId)
    /\ nextId' = nextId + 1
    /\ UNCHANGED notDestinations

NextDestinations ==
    \/ AddNewDestination
    \/ \E i \in 1..DestinationCap : ReuseDestination(i)

SpecDestinations == Init /\ [][NextDestinations]_vars

\* C28: after any sequence of addDestination calls the stored destinations
\* are at most 50, have pairwise distinct ids and are ordered most recent
\* first: the destination added or used again by the last call, the one
\* with the latest lastUsed stamp, is the first entry.
C28_DestinationsRecentFirst ==
    /\ Len(destinations) <= DestinationCap
    /\ \A i, j \in 1..Len(destinations) :
          i # j => destinations[i].id # destinations[j].id
    /\ \A i \in 2..Len(destinations) :
          destinations[i - 1].lastUsed >= destinations[i].lastUsed


\* --------------------------------------------------------- NominatimService
\* the clock advances in steps of ClockStep milliseconds
ClockStep == 500
\* queries typed by the user: one too short, two spellings of one place,
\* and two other places
Queries == {"k", "Kochi", "kochi", "Aluva", "Thrissur"}
toLowerCase(query) == IF query = "Kochi" THEN "kochi"
                      ELSE IF query = "Aluva" THEN "aluva"
                      ELSE IF query = "Thrissur" THEN "thrissur"
                      ELSE query
QueryLength(query) == IF query = "k" THEN 1 ELSE 5

notNominatim == <<currentJourney, currentLocation, isTracking, alertedDistances, effectPending,
                  pendingDispatch, pendingEmergency, clearTimers, nextId,
                  savedJourney, journeyHistory, gm, scriptPos, bg, selection, error,
                  notificationPermission, destinations, estimate, measured, alarm>>

\* makeRequest after its rate limiting: the request leaves now
issueRequest(n, query) ==
    [n EXCEPT !.lastRequestTime = n.now,
              !.issued = Append(@, n.now),
              !.fetching = Append(@, query)]

\* makeRequest up to its first suspension
makeRequest(n, query) ==
    LET timeSinceLastRequest == n.now - n.lastRequestTime
    IN  IF timeSinceLastRequest < MinRequestInterval
        THEN [n EXCEPT !.sleeping =
                 Append(@, [query |-> query,
                            wake |-> n.now + (MinRequestInterval - timeSinceLastRequest)])]
        ELSE issueRequest(n, query)

\* searchPlaces up to its first suspension
searchPlaces(n, query) ==
    LET counted == [n EXCEPT !.searches = @ + 1]
    IN  IF QueryLength(query) < 2 THEN counted
        ELSE IF toLowerCase(query) \in n.cache THEN counted
        ELSE makeRequest(counted, query)

NomSearch(query) ==
    /\ nominatim.searches < MaxSearches
    /\ nominatim' = searchPlaces(nominatim, query)
    /\ UNCHANGED notNominatim

\* the timer of a waiting makeRequest fires
NomWake(i) ==
    /\ i \in 1..Len(nominatim.sleeping)
    /\ nominatim.sleeping[i].wake <= nominatim.now
    /\ nominatim' = issueRequest([nominatim EXCEPT !.sleeping = RemoveAt(@, i)],
                                 nominatim.sleeping[i].query)
    /\ UNCHANGED notNominatim

\* fetch resolves with an ok response: searchPlaces caches the result
NomResponse(i) ==
    /\ i \in 1..Len(nominatim.fetching)
    /\ nominatim' = [nominatim EXCEPT !.fetching = RemoveAt(@, i),
                                      !.cache = @ \cup {toLowerCase(nominatim.fetching[i])}]
    /\ UNCHANGED notNominatim

\* fetch rejects or the response is not ok: searchPlaces returns []
NomResponseFailed(i) ==
    /\ i \in 1..Len(nominatim.fetching)
    /\ nominatim' = [nominatim EXCEPT !.fetching = RemoveAt(@, i)]
    /\ UNCHANGED notNominatim

\* time passes; a timer that is due fires before the clock moves on
NomTick ==
    /\ nominatim.now < MaxClock
    /\ \A i \in 1..Len(nominatim.sleeping) : nominatim.sleeping[i].wake > nominatim.now
    /\ nominatim' = [nominatim EXCEPT !.now = @ + ClockStep]
    /\ UNCHANGED notNominatim

NextNominatim ==
    \/ \E query \in Queries : NomSearch(query)
    \/ \E i \in 1..MaxSearches : NomWake(i)
    \/ \E i \in 1..MaxSearches : NomResponse(i)
    \/ \E i \in 1..MaxSearches : NomResponseFailed(i)
    \/ NomTick

SpecNominatim == Init /\ [][NextNominatim]_vars

\* C29: any two geocoding requests issued through searchPlaces start at
\* least one second apart, also when several searches for different
\* uncached queries are in flight at the same time.
C29_RequestsOneSecondApart ==
    \A i, j \in 1..Len(nominatim.issued) :
        i < j => nominatim.issued[j] - nominatim.issued[i] >= MinRequestInterval


\* ------------------------------------------------------ estimateArrivalTime
\* distances in metres, in steps of DistanceStep: 0 m, 371 m, 742 m, 1113 m, ...
DistanceStep == 371
SampleDistances == {DistanceStep * k : k \in 0..MaxDistanceSteps}
\* the four modes of the speed table and two that it does not list
SampleTransportModes == {"walk", "bus", "train", "car", "metro", "bicycle"}

Estimate(distance, transportMode) ==
    /\ estimate' = [distance |-> distance, transportMode |-> transportMode,
                    ms |-> estimateArrivalTime(distance, transportMode)]
    /\ UNCHANGED <<currentJourney, currentLocation, isTracking, alertedDistances,
                   effectPending, pendingDispatch, pendingEmergency, clearTimers, nextId,
                   savedJourney, journeyHistory, gm, scriptPos, bg, selection, error,
                   notificationPermission, destinations, nominatim, measured, alarm>>

NextEstimate ==
    \E distance \in SampleDistances, transportMode \in SampleTransportModes :
        Estimate(distance, transportMode)

SpecEstimate == Init /\ [][NextEstimate]_vars

SampleOrigins == {[lat |-> 0, lng |-> 0], [lat |-> 6000000, lng |-> 1000000],
                  [lat |-> -4500000, lng |-> -7000000]}
SampleOffsets == {[lat |-> 0, lng |-> 0], [lat |-> 0, lng |-> 810], [lat |-> 300, lng |-> -135],
                  [lat |-> -1000, lng |-> 36], [lat |-> -700, lng |-> 4000],
                  [lat |-> 2500, lng |-> 2500], [lat |-> 4497, lng |-> 0]}
Offset(origin, offset) == [lat |-> origin.lat + offset.lat, lng |-> origin.lng + offset.lng]

\* the distance between two points of one place, asked for in both orders
Measure(point1, point2) ==
    /\ measured' = [point1 |-> point1, point2 |-> point2,
                    forward |-> calculateDistance(point1, point2),
                    backward |-> calculateDistance(point2, point1)]
    /\ UNCHANGED <<currentJourney, currentLocation, isTracking, alertedDistances,
                   effectPending, pendingDispatch, pendingEmergency, clearTimers, nextId,
                   savedJourney, journeyHistory, gm, scriptPos, bg, selection, error,
                   notificationPermission, destinations, nominatim, estimate, alarm>>

NextMeasure ==
    \E origin \in SampleOrigins, offset1, offset2 \in SampleOffsets :
        Measure(Offset(origin, offset1), Offset(origin, offset2))

SpecMeasure == Init /\ [][NextMeasure]_vars

\* C31: the distance is symmetric, distance(a, b) = distance(b, a) for
\* every pair of points, and distance(a, a) = 0 for every point.
C31_DistanceSymmetric ==
    measured # NoMeasure =>
        /\ measured.forward = measured.backward
        /\ measured.point1 = measured.point2 => measured.forward = 0

\* C31 witness: two points on different sides of the 60th parallel, at
\* different longitudes, measured both ways with a positive distance
C31_Witness ==
    /\ measured # NoMeasure
    /\ Cos(measured.point1.lat) # Cos(measured.point2.lat)
    /\ measured.point1.lng # measured.point2.lng
    /\ measured.forward > 0
    /\ measured.backward > 0


\* C32: processing one sample quiesces: a run of the tracking effect that
\* finds the journey already holding the current sample and appends no
\* alert leaves nothing that triggers the effect again.
C32_SampleEvaluationQuiesces ==
    [][(/\ EffectFinal \/ EffectApproaching \/ EffectFar
        /\ currentJourney.currentLocation = currentLocation
        /\ currentJourney'.alerts = currentJourney.alerts)
           => ~effectPending']_vars


\* ------------------------------------------------ one journey after another
\* a second journey may be started as soon as the first has arrived or was
\* stopped, also while the timer that clears the first is still pending
StartSuccessiveJourney(startLocation) ==
    /\ nextId <= MaxSuccessiveJourneys
    /\ startJourneyAs(startLocation, "granted")
    /\ UNCHANGED scriptPos

\* the Stop button is on the tracking screen, which stays up until the
\* journey is cleared
StopSuccessiveJourney ==
    /\ currentJourney # NoJourney
    /\ Len(clearTimers) < MaxSuccessiveJourneys
    /\ Len(journeyHistory) < MaxSuccessiveJourneys
    /\ stopJourneyAs(currentJourney)
    /\ UNCHANGED <<currentLocation, alertedDistances, pendingDispatch, pendingEmergency, nextId,
                   scriptPos, bg, selection, error,
                   notificationPermission, destinations, nominatim, estimate, measured, alarm>>

NextSuccessive ==
    \/ \E p \in SamplePoints : StartSuccessiveJourney(p)
    \/ \E p \in SamplePoints : WatchDeliver(p)
    \/ JourneyTrackingEffect
    \/ \E t \in AlertTypes : DispatchDone(t)
    \/ \E i \in 1..MaxSuccessiveJourneys : ClearTimerFire(i)
    \/ StopSuccessiveJourney

SpecSuccessive == Init /\ [][NextSuccessive]_vars

\* C33: a clear timer only ever removes the journey that scheduled it: when
\* the timer of an earlier journey fires while another journey is current,
\* that journey stays.
C33_TimerClearsOwnJourneyOnly ==
    [][\A i \in 1..MaxSuccessiveJourneys :
          (/\ ClearTimerFire(i)
           /\ currentJourney # NoJourney
           /\ currentJourney.id # clearTimers[i])
              => currentJourney' = currentJourney]_vars


\* C34: the controller has at most one position-update handler and at most
\* one error handler subscribed to the sampler at any time, whatever
\* starts, pauses, resumes and restores have happened.
C34_OneSubscription ==
    /\ gm.callbacks <= 1
    /\ gm.errorCallbacks <= 1


\* C35: each journey id is recorded at most once in the journey history: a
\* journey that has arrived or was stopped is not added again by a later
\* stop issued before the journey is cleared.
C35_JourneyRecordedOnce ==
    \A i, j \in 1..Len(journeyHistory) :
        i # j => journeyHistory[i].id # journeyHistory[j].id


\* C36: the background service runs at most one self-rescheduling
\* reevaluation chain at any time: never more than one
\* setTimeout(checkAndUpdateTracking) is pending, whatever calls of
\* startSmartTracking() and stopTracking() were made.
C36_OneCheckChain == bg.timers <= 1


\* C37: the background service has at most one platform watch registered
\* at any time, also while restarts overlap, and once no restart and no
\* stop is in flight every registered watch is the one recorded in watchId.
C37_OneBackgroundWatch ==
    /\ Cardinality(bg.watches) <= 1
    /\ (bg.restarts = <<>> /\ bg.stopping = "no") => bg.watches \subseteq {bg.watchId}


\* ------------------------------------------ the long alarm of NotificationManager
notAlarm == <<currentJourney, currentLocation, isTracking, alertedDistances, effectPending,
              pendingDispatch, pendingEmergency, clearTimers, nextId,
              savedJourney, journeyHistory, gm, scriptPos, bg, selection, error,
              notificationPermission, destinations, nominatim, estimate, measured>>

stopLongAlarm(a) ==
    IF a.longAlarmInterval # NoHandle
    THEN [a EXCEPT !.timers = {t \in @ : t.id # a.longAlarmInterval},
                   !.longAlarmInterval = NoHandle]
    ELSE a

\* one call of the playAlarmCycle closure whose alarmCount is as given
playAlarmCycle(a, alarmCount) ==
    IF alarmCount >= maxAlarms THEN a
    ELSE [a EXCEPT !.cycles = @ + 1,
                   !.playedAfterStop = @ \/ a.stopped,
                   !.timers = @ \cup {[id |-> a.nextTimer, alarmCount |-> alarmCount + 1]},
                   !.longAlarmInterval = a.nextTimer,
                   !.nextTimer = @ + 1]

\* playLongWarningAlarm without its stopLongAlarm() call
playLongWarningAlarmKeeping(a) ==
    playAlarmCycle([a EXCEPT !.cycles = 0, !.starts = @ + 1, !.stopped = FALSE,
                             !.playedAfterStop = FALSE], 0)

playLongWarningAlarm(a) ==
    playAlarmCycle([stopLongAlarm(a) EXCEPT !.cycles = 0, !.starts = @ + 1, !.stopped = FALSE,
                                            !.playedAfterStop = FALSE], 0)

\* the 1 km warning starts the long alarm
AlarmPlayLong ==
    /\ alarm.starts < MaxAlarmStarts
    /\ alarm' = playLongWarningAlarm(alarm)
    /\ UNCHANGED notAlarm

\* showFinalAlert, showArrivalAlert and showEmergencyAlert begin with stopLongAlarm()
AlarmStop ==
    /\ alarm' = [stopLongAlarm(alarm) EXCEPT !.stopped = TRUE]
    /\ UNCHANGED notAlarm

\* a pending setTimeout(playAlarmCycle, 5000) fires
AlarmTimerFire(t) ==
    /\ t \in alarm.timers
    /\ alarm' = playAlarmCycle([alarm EXCEPT !.timers = @ \ {t}], t.alarmCount)
    /\ UNCHANGED notAlarm

NextAlarm ==
    \/ AlarmPlayLong
    \/ AlarmStop
    \/ \E t \in alarm.timers : AlarmTimerFire(t)

\* a timer set with setTimeout fires once its delay has passed
SpecAlarm ==
    /\ Init
    /\ [][NextAlarm]_vars
    /\ WF_vars(\E t \in alarm.timers : AlarmTimerFire(t))

\* C38: the long alarm plays at most 6 cycles per start, never has two
\* cycle chains pending, plays no cycle after stopLongAlarm() until it is
\* started again, and always terminates: a pending cycle timer leads to no
\* timer pending.
C38_LongAlarmBounded ==
    /\ [](/\ alarm.cycles <= 6
          /\ Cardinality(alarm.timers) <= 1
          /\ ~alarm.playedAfterStop
          /\ alarm.stopped => alarm.timers = {})
    /\ (alarm.timers # {}) ~> (alarm.timers = {})

\* C38 witness: the second long alarm has played all its cycles and ended
C38_Witness ==
    /\ alarm.starts = 2
    /\ alarm.cycles = 6
    /\ alarm.timers = {}
    /\ alarm.longAlarmInterval # NoHandle
====
